---- MODULE Spec2Model ----
(***************************************************************************)
(* Model of main.py: the content pipeline                                  *)
(*   load_strategy -> generate_post_ideas -> for each idea                 *)
(*   (generate_caption, generate_image, append, sleep) -> generate_dashboard*)
(*                                                                         *)
(* A text is a sequence of chunks.  Whitespace and the characters the      *)
(* parser looks at (".", " ", "\n") are chunks of one character; a fixed   *)
(* literal of the program (the caption sentinel, the URL template) is one  *)
(* chunk.                                                                  *)
(***************************************************************************)
EXTENDS Naturals, Sequences, FiniteSets

VARIABLES pc, strategy, response, listing, ideas, i, caption, replies,
          image_path, all_posts, report, events

vars == <<pc, strategy, response, listing, ideas, i, caption, replies,
          image_path, all_posts, report, events>>

----------------------------------------------------------------------------
(* Bounds *)

\* longest raw reply text handed to the parser (ParseSpec)
MaxLen == 6
\* most lines in a reply built as a list (Spec)
MaxLines == 3

----------------------------------------------------------------------------
(* Text helpers: Python's str methods as main.py uses them *)

Whitespace == {" ", "\n", "\t", "\r"}

RECURSIVE lstrip(_)
lstrip(s) == IF s # <<>> /\ Head(s) \in Whitespace THEN lstrip(Tail(s)) ELSE s

RECURSIVE rstrip(_)
rstrip(s) ==
    IF s # <<>> /\ s[Len(s)] \in Whitespace
    THEN rstrip(SubSeq(s, 1, Len(s) - 1))
    ELSE s

\* str.strip(): drops leading and trailing whitespace
strip(s) == rstrip(lstrip(s))

\* position of the first chunk equal to c, 0 when there is none
index_of(s, c) ==
    IF \E j \in 1..Len(s) : s[j] = c
    THEN CHOOSE j \in 1..Len(s) : s[j] = c /\ \A h \in 1..(j - 1) : s[h] # c
    ELSE 0

\* str.split('\n')
RECURSIVE split_lines(_)
split_lines(s) ==
    LET j == index_of(s, "\n")
    IN  IF j = 0 THEN <<s>>
        ELSE <<SubSeq(s, 1, j - 1)>> \o split_lines(SubSeq(s, j + 1, Len(s)))

\* the delimiter '. ' starts at position j of s
delim_at(s, j) == j + 1 <= Len(s) /\ s[j] = "." /\ s[j + 1] = " "

\* str.find('. '): position of the first occurrence, 0 when there is none
find_delim(s) ==
    IF \E j \in 1..Len(s) : delim_at(s, j)
    THEN CHOOSE j \in 1..Len(s) :
             delim_at(s, j) /\ \A h \in 1..(j - 1) : ~delim_at(s, h)
    ELSE 0

\* '. ' in line
has_delim(s) == find_delim(s) # 0

split_delim_last(s) ==
    IF ~has_delim(s) THEN <<s>>
    ELSE LET j == CHOOSE j \in 1..Len(s) :
                      delim_at(s, j) /\ \A h \in (j + 1)..Len(s) : ~delim_at(s, h)
         IN  <<SubSeq(s, 1, j - 1), SubSeq(s, j + 2, Len(s))>>

\* str.split('. ', 1): one part without the delimiter, else two
split_delim(s) ==
    LET j == find_delim(s)
    IN  IF j = 0 THEN <<s>>
        ELSE <<SubSeq(s, 1, j - 1), SubSeq(s, j + 2, Len(s))>>

----------------------------------------------------------------------------
(* generate_post_ideas: the reply of the service and its parsing *)

\* a reply of the text service: a text, or a failure of the call
Reply(t) == [ok |-> TRUE, text |-> t]
ServiceError == [ok |-> FALSE, text |-> <<>>]

\* the lines the list comprehension keeps: the filter tests the unstripped line
kept_lines(text) == SelectSeq(split_lines(strip(text)), has_delim)

\* the element expression of the comprehension, line.strip().split('. ', 1)
parts_of(line) == split_delim(strip(line))

\* [1] of a one-element list raises IndexError inside the try block
raises_IndexError(text) ==
    \E k \in 1..Len(kept_lines(text)) : Len(parts_of(kept_lines(text)[k])) < 2

generate_post_ideas(reply) ==
    IF ~reply.ok THEN <<>>
    ELSE IF raises_IndexError(reply.text) THEN <<>>
    ELSE [k \in 1..Len(kept_lines(reply.text)) |->
              parts_of(kept_lines(reply.text)[k])[2]]

----------------------------------------------------------------------------
(* Number formatting: what an f-string or strftime does with an integer *)

Digits == <<"0", "1", "2", "3", "4", "5", "6", "7", "8", "9">>

\* str(n) for n >= 0
RECURSIVE decimal(_)
decimal(n) ==
    IF n < 10 THEN <<Digits[n + 1]>>
    ELSE decimal(n \div 10) \o <<Digits[(n % 10) + 1]>>

\* %m, %d, %H, %M, %S: two digits, zero padded
pad2(n) == IF n < 10 THEN <<"0">> \o decimal(n) ELSE decimal(n)

----------------------------------------------------------------------------
(* The replies the text service can give to the ideas prompt *)

\* a reply built as a list: numbered lines "k. sentence", lines without
\* '. ', and lines that contain '. ' without being a numbered sentence
Ks == {1, 10}
Sentences == { <<"a">>, <<"b", ".", " ", "c">> }
PlainLines == { <<>>, <<" ", "y", ".">> }
OddLines == { <<"1", ".", " ">>, <<"1", ".", " ", " ", "z">> }

Items ==
    [kind : {"numbered"}, k : Ks, text : Sentences]
        \cup [kind : {"plain"}, k : {0}, text : PlainLines]
        \cup [kind : {"odd"}, k : {0}, text : OddLines]

Listings == UNION { [1..n -> Items] : n \in 0..MaxLines }

render_item(it) ==
    IF it.kind = "numbered" THEN decimal(it.k) \o <<".", " ">> \o it.text
    ELSE it.text

RECURSIVE render_listing(_)
render_listing(l) ==
    IF l = <<>> THEN <<>>
    ELSE IF Len(l) = 1 THEN render_item(l[1])
    ELSE render_item(l[1]) \o <<"\n">> \o render_listing(Tail(l))

\* every text of at most n chunks over the characters the parser tells apart
Chars == {"a", ".", " ", "\n"}
Texts(n) == UNION { [1..m -> Chars] : m \in 0..n }

\* the replies to a caption prompt
CaptionReplies ==
    { ServiceError, Reply(<<" ", "c", " ", "#", "t", "\n">>) }

----------------------------------------------------------------------------
(* load_strategy *)

Strategies ==
    { [appName |-> "EduApp", targetAudience |-> "K-12 teachers",
       contentPillars |-> <<"tips", "stories">>, brandVoice |-> "friendly",
       visualStyle |-> "flat illustration"] }

\* what strategy holds before load_strategy returned, and for a document
\* that json.load turns into a falsy value
NoStrategy == [appName |-> "", targetAudience |-> "", contentPillars |-> <<>>,
               brandVoice |-> "", visualStyle |-> ""]

----------------------------------------------------------------------------
(* generate_caption *)

CaptionSentinel == <<"Error: Could not generate caption.">>

generate_caption_unstripped(reply) ==
    IF ~reply.ok THEN CaptionSentinel ELSE reply.text

generate_caption(reply) ==
    IF ~reply.ok THEN CaptionSentinel ELSE strip(reply.text)

----------------------------------------------------------------------------
(* generate_image *)

UrlTemplate == "https://placehold.co/600x400/1E90FF/FFFFFF?text=Image+for+Post+"
ImageErrorUrl == <<"https://placehold.co/600x400/FF0000/FFFFFF?text=Image+Error">>

\* the prompt main builds for the image of an idea
image_prompt_of(idea, strat) ==
    <<"Create an image for a social media post about '">> \o idea
        \o <<"'. The visual style should be: '", strat.visualStyle, "'">>

\* the try block only formats an integer into the template: nothing raises
image_try_raises(image_prompt, post_number) == FALSE

generate_image_zero_based(image_prompt, post_number) ==
    IF image_try_raises(image_prompt, post_number) THEN ImageErrorUrl
    ELSE <<UrlTemplate>> \o decimal(post_number - 1)

generate_image(image_prompt, post_number) ==
    IF image_try_raises(image_prompt, post_number) THEN ImageErrorUrl
    ELSE <<UrlTemplate>> \o decimal(post_number)

----------------------------------------------------------------------------
(* generate_dashboard *)

MonthNames == <<"January", "February", "March", "April", "May", "June", "July",
                "August", "September", "October", "November", "December">>

\* datetime.now()
Clocks ==
    { [year |-> 2025, month |-> 12, day |-> 31, hour |-> 23, minute |-> 59,
       second |-> 58],
      [year |-> 2026, month |-> 1, day |-> 1, hour |-> 0, minute |-> 0,
       second |-> 5] }

\* strftime("%B %Y")
month_name(now) == <<MonthNames[now.month], " ">> \o decimal(now.year)

\* strftime("%Y-%m-%d %H:%M:%S")
generation_date_str(now) ==
    decimal(now.year) \o <<"-">> \o pad2(now.month) \o <<"-">> \o pad2(now.day)
        \o <<" ">> \o pad2(now.hour) \o <<":">> \o pad2(now.minute)
        \o <<":">> \o pad2(now.second)

\* template.render(posts=..., month=..., generation_date=...)
html_content(posts, now) ==
    [posts |-> posts, month |-> month_name(now),
     generation_date |-> generation_date_str(now)]

\* how a call of generate_dashboard can end
DashboardOutcomes == {"template_missing", "unwritable", "ok"}

----------------------------------------------------------------------------
(* main: the orchestrator, one action per step of its body *)

\* time.sleep(1)
SleepSeconds == 1

\* the longest log a run can write: load, ideas, four steps per line, render;
\* the guard of GenerateCaption keeps the log within it, which no run of
\* main comes near (a loop that started over would)
MaxEvents == 4 * MaxLines + 3

\* an entry of the log of external events: the step, the post number it is
\* for (0 outside the loop) and its argument
Ev(op, k, arg) == [op |-> op, k |-> k, arg |-> arg]

TerminalStates ==
    {"aborted_load", "stopped_strategy", "stopped_empty", "aborted_render",
     "written"}

Init ==
    /\ pc = "load"
    /\ strategy = NoStrategy
    /\ response = ServiceError
    /\ listing = <<>>
    /\ ideas = <<>>
    /\ i = 0
    /\ caption = <<>>
    /\ replies = <<>>
    /\ image_path = <<>>
    /\ all_posts = <<>>
    /\ report = <<>>
    /\ events = <<>>

\* strategy = load_strategy(); if not strategy: return
LoadStrategy ==
    /\ pc = "load"
    /\ events' = Append(events, Ev("load_strategy", 0, <<>>))
    /\ \/ /\ pc' = "aborted_load"          \* open or json.load raises
          /\ strategy' = strategy
       \/ /\ pc' = "stopped_strategy"      \* the document is a falsy value
          /\ strategy' = strategy
       \/ \E s \in Strategies :
              /\ strategy' = s
              /\ pc' = "ideas"
    /\ UNCHANGED <<response, listing, ideas, i, caption, replies, image_path,
                   all_posts, report>>

after_ideas_unchecked(ids) == IF ids = <<>> THEN "render" ELSE "caption"

\* if not ideas: return; otherwise the loop starts
after_ideas(ids) == IF ids = <<>> THEN "stopped_empty" ELSE "caption"

\* ideas = generate_post_ideas(strategy, num_posts=10); all_posts = []
GenerateIdeas ==
    /\ pc = "ideas"
    /\ \/ \E l \in Listings :
              /\ listing' = l
              /\ response' = Reply(render_listing(l))
       \/ /\ listing' = <<>>
          /\ response' = ServiceError
    /\ ideas' = generate_post_ideas(response')
    /\ events' = Append(events, Ev("generate_post_ideas", 0, <<>>))
    /\ pc' = after_ideas(ideas')
    /\ i' = IF ideas' = <<>> THEN i ELSE 1
    /\ all_posts' = <<>>
    /\ UNCHANGED <<strategy, caption, replies, image_path, report>>

\* caption = generate_caption(strategy, idea)
GenerateCaption ==
    /\ pc = "caption"
    /\ Len(events) < MaxEvents
    /\ \E r \in CaptionReplies :
          /\ caption' = generate_caption(r)
          /\ replies' = Append(replies, r)
    /\ events' = Append(events, Ev("generate_caption", i, ideas[i]))
    /\ pc' = "image"
    /\ UNCHANGED <<strategy, response, listing, ideas, i, image_path,
                   all_posts, report>>

\* image_prompt = f"..."; image_path = generate_image(image_prompt, i)
GenerateImage ==
    /\ pc = "image"
    /\ image_path' = generate_image(image_prompt_of(ideas[i], strategy), i)
    /\ events' = Append(events, Ev("generate_image", i, <<>>))
    /\ pc' = "append"
    /\ UNCHANGED <<strategy, response, listing, ideas, i, caption, replies,
                   all_posts, report>>

append_first(posts, post) == <<post>> \o posts

append_shared(posts, post) == [k \in 1..(Len(posts) + 1) |-> post]

\* list.append
append_post(posts, post) == Append(posts, post)

\* all_posts.append({"idea": ..., "caption": ..., "image_path": ...})
AppendPost ==
    /\ pc = "append"
    /\ all_posts' = append_post(all_posts,
                        [idea |-> ideas[i], caption |-> caption,
                         image_path |-> image_path])
    /\ events' = Append(events, Ev("append", i, <<>>))
    /\ pc' = "sleep"
    /\ UNCHANGED <<strategy, response, listing, ideas, i, caption, replies,
                   image_path, report>>

\* the position after the sleep of iteration k of n
loop_next(k, n) == IF k + 1 > n THEN "render" ELSE "caption"

Sleep_between_only ==
    /\ pc = "sleep"
    /\ events' = IF i = Len(ideas) THEN events
                 ELSE Append(events, Ev("sleep", i, decimal(SleepSeconds)))
    /\ i' = i + 1
    /\ pc' = loop_next(i, Len(ideas))
    /\ UNCHANGED <<strategy, response, listing, ideas, caption, replies,
                   image_path, all_posts, report>>

Sleep_restart ==
    /\ pc = "sleep"
    /\ events' = Append(events, Ev("sleep", i, decimal(SleepSeconds)))
    /\ i' = IF i = Len(ideas) THEN 1 ELSE i + 1
    /\ pc' = "caption"
    /\ UNCHANGED <<strategy, response, listing, ideas, caption, replies,
                   image_path, all_posts, report>>

\* time.sleep(1), then the next idea of enumerate(ideas, 1) or the loop's end
Sleep ==
    /\ pc = "sleep"
    /\ events' = Append(events, Ev("sleep", i, decimal(SleepSeconds)))
    /\ i' = i + 1
    /\ pc' = loop_next(i, Len(ideas))
    /\ UNCHANGED <<strategy, response, listing, ideas, caption, replies,
                   image_path, all_posts, report>>

dashboard_file_eager(files, outcome, html) == Append(files, html)

\* the files generate_dashboard writes: get_template and open come before
\* f.write, so a call that fails writes nothing
dashboard_file(files, outcome, html) ==
    IF outcome = "ok" THEN Append(files, html) ELSE files

\* generate_dashboard(all_posts)
GenerateDashboard ==
    /\ pc = "render"
    /\ \E o \in DashboardOutcomes, now \in Clocks :
          /\ report' = dashboard_file(report, o, html_content(all_posts, now))
          /\ pc' = IF o = "ok" THEN "written" ELSE "aborted_render"
    /\ events' = Append(events, Ev("generate_dashboard", 0, <<>>))
    /\ UNCHANGED <<strategy, response, listing, ideas, i, caption, replies,
                   image_path, all_posts>>

\* text_model.generate_content(prompt) never returns
Hang ==
    /\ pc \in {"ideas", "caption"}
    /\ pc' = "hung"
    /\ UNCHANGED <<strategy, response, listing, ideas, i, caption, replies,
                   image_path, all_posts, report, events>>

Next ==
    \/ LoadStrategy
    \/ GenerateIdeas
    \/ GenerateCaption
    \/ GenerateImage
    \/ AppendPost
    \/ Sleep
    \/ GenerateDashboard
    \/ Hang

Spec == Init /\ [][Next]_vars

\* main runs on one thread: the step it is at is taken
LiveSpec == Init /\ [][Next]_vars /\ WF_vars(Next)

----------------------------------------------------------------------------
(* The parser alone, on every short text *)

ParseInit ==
    /\ pc = "parse"
    /\ strategy \in Strategies
    /\ response \in {Reply(t) : t \in Texts(MaxLen)}
    /\ listing = <<>>
    /\ ideas = <<>>
    /\ i = 0
    /\ caption = <<>>
    /\ replies = <<>>
    /\ image_path = <<>>
    /\ all_posts = <<>>
    /\ report = <<>>
    /\ events = <<>>

ParseStep ==
    /\ pc = "parse"
    /\ ideas' = generate_post_ideas(response)
    /\ pc' = "parsed"
    /\ UNCHANGED <<strategy, response, listing, i, caption, replies,
                   image_path, all_posts, report, events>>

ParseNext == ParseStep

ParseSpec == ParseInit /\ [][ParseNext]_vars

----------------------------------------------------------------------------
(* Vocabulary of the properties *)

\* generate_post_ideas(strategy, num_posts=10)
NumPosts == 10

\* generate_post_ideas has returned to main
IdeasReturned == Len(events) >= 2

\* the loop is over and generate_dashboard is about to run or has run
AtRender == pc \in {"render", "written", "aborted_render"}

\* some entry of the log is a step named in ops
Logged(ops) == \E e \in 1..Len(events) : events[e].op \in ops

\* s is the beginning of t
IsPrefix(s, t) == Len(s) <= Len(t) /\ SubSeq(t, 1, Len(s)) = s

\* c is t without the whitespace around it
IsTrimOf(c, t) ==
    \E a \in 0..Len(t) : \E b \in a..Len(t) :
        /\ c = SubSeq(t, a + 1, b)
        /\ \A j \in 1..a : t[j] \in Whitespace
        /\ \A j \in (b + 1)..Len(t) : t[j] \in Whitespace
        /\ c # <<>> => (c[1] \notin Whitespace /\ c[Len(c)] \notin Whitespace)

----------------------------------------------------------------------------
(* C1 *)

\* the idea the parsing contract gives for a line containing '. '
ContractIdea(line) ==
    strip(SubSeq(line, find_delim(line) + 2, Len(line)))

ContractIdeas(text) ==
    LET ls == SelectSeq(split_lines(text), has_delim)
    IN  [k \in 1..Len(ls) |-> ContractIdea(ls[k])]

\* C1: for every reply text, the parser returns, in line order, one idea per
\* line containing '. ': the text after the first '. ' of the line, trimmed;
\* no line shape makes the call fail or removes the ideas of other lines.
C1_EveryDelimitedLineYieldsItsIdea ==
    pc = "parsed" => ideas = ContractIdeas(response.text)

----------------------------------------------------------------------------
(* C2 *)

IsNumbered(it) == it.kind = "numbered"

\* the sentences of the numbered lines of a list, in order
ListedSentences(l) ==
    LET ns == SelectSeq(l, IsNumbered)
    IN  [k \in 1..Len(ns) |-> ns[k].text]

\* every line is "k. sentence" or lacks '. '
IsNumberedList(l) == \A k \in 1..Len(l) : l[k].kind \in {"numbered", "plain"}

\* C2: a reply made of N lines "k. sentence", mixed with lines lacking '. ',
\* parses to exactly the N sentences in order; no such line gives no idea.
C2_NumberedListParsesToItsSentences ==
    (IdeasReturned /\ response.ok /\ IsNumberedList(listing))
        => ideas = ListedSentences(listing)

C2_Witness ==
    /\ IdeasReturned /\ response.ok /\ IsNumberedList(listing)
    /\ Len(listing) = 3
    /\ listing[1].kind = "numbered" /\ listing[1].k = 10
    /\ listing[2].kind = "plain" /\ listing[2].text = <<" ", "y", ".">>
    /\ listing[3].kind = "numbered" /\ listing[3].text = <<"b", ".", " ", "c">>
    /\ Len(ideas) = 2

----------------------------------------------------------------------------
(* C3 *)

\* C3: a failed ideas call gives the empty sequence, and with an empty ideas
\* sequence main stops: no caption call, no image call, no dashboard call, no
\* report.
C3_EmptyIdeasStopTheRun ==
    /\ (IdeasReturned /\ ~response.ok) => ideas = <<>>
    /\ (IdeasReturned /\ ideas = <<>>) =>
           /\ pc = "stopped_empty"
           /\ ~Logged({"generate_caption", "generate_image", "append",
                       "generate_dashboard"})
           /\ all_posts = <<>>
           /\ report = <<>>

C3_Witness ==
    /\ pc = "stopped_empty"
    /\ ~response.ok
    /\ Len(events) = 2

----------------------------------------------------------------------------
(* C4 *)

\* C4: the Post of an idea whose caption call failed carries the sentinel,
\* the Post of any other idea carries the trimmed reply, ideas after a failed
\* one are still processed, and the dashboard is rendered with one Post per
\* idea.
C4_FailedCaptionDegradesOnePost ==
    /\ Len(all_posts) <= Len(replies)
    /\ \A k \in 1..Len(all_posts) :
          /\ ~replies[k].ok => all_posts[k].caption = CaptionSentinel
          /\ replies[k].ok => IsTrimOf(all_posts[k].caption, replies[k].text)
    /\ (IdeasReturned /\ ideas # <<>> /\ pc \in TerminalStates) =>
          /\ pc \in {"written", "aborted_render"}
          /\ events[Len(events)].op = "generate_dashboard"
    /\ AtRender => Len(all_posts) = Len(ideas)

C4_Witness ==
    /\ pc = "written"
    /\ Len(all_posts) = 2
    /\ ~replies[1].ok
    /\ replies[2].ok
    /\ all_posts[2].caption # replies[2].text

----------------------------------------------------------------------------
(* C5 *)

\* C5: the posts are always the Posts of the first ideas, in order, one per
\* finished iteration, and of all the ideas when generate_dashboard is called.
C5_PostsFollowIdeas ==
    /\ Len(all_posts) <= Len(ideas)
    /\ \A k \in 1..Len(all_posts) : all_posts[k].idea = ideas[k]
    /\ pc \in {"caption", "image", "append"} => Len(all_posts) = i - 1
    /\ pc = "sleep" => Len(all_posts) = i
    /\ AtRender => Len(all_posts) = Len(ideas)

C5_Witness ==
    /\ pc = "render"
    /\ Len(all_posts) = 3
    /\ all_posts[1].idea # all_posts[2].idea
    /\ all_posts[1].idea = all_posts[3].idea

----------------------------------------------------------------------------
(* C6 *)

\* C6: the report is written at most once, from the Posts of all the ideas;
\* a run that ends at the strategy, on empty ideas or on a failing render
\* writes nothing.
C6_ReportOnlyFromAllPosts ==
    /\ Len(report) <= 1
    /\ report # <<>> =>
          /\ pc = "written"
          /\ ideas # <<>>
          /\ Len(report[1].posts) = Len(ideas)
          /\ \A k \in 1..Len(ideas) : report[1].posts[k].idea = ideas[k]
    /\ pc \in (TerminalStates \ {"written"}) => report = <<>>

C6_Witness ==
    /\ pc = "aborted_render"
    /\ Len(all_posts) = 2
    /\ report = <<>>

----------------------------------------------------------------------------
(* C7 *)

DigitValue(c) == CHOOSE d \in 0..9 : Digits[d + 1] = c

\* the number a sequence of decimal digits writes
RECURSIVE DecimalValue(_)
DecimalValue(ds) ==
    IF ds = <<>> THEN 0
    ELSE 10 * DecimalValue(SubSeq(ds, 1, Len(ds) - 1)) + DigitValue(ds[Len(ds)])

ImagePrompts ==
    {<<>>} \cup {image_prompt_of(s, st) : s \in Sentences, st \in Strategies}

\* u is the templated URL ending in "Post+n"
EncodesPost(u, n) ==
    /\ Len(u) >= 2
    /\ u[1] = UrlTemplate
    /\ \A j \in 2..Len(u) : \E d \in 1..10 : Digits[d] = u[j]
    /\ DecimalValue(Tail(u)) = n

\* C7: generate_image returns, whatever the prompt, the templated URL of the
\* index; the k-th Post (from 1) carries the URL of k, never the error URL.
C7_ImagePathEncodesPostNumber ==
    /\ \A n \in 1..NumPosts : \A p \in ImagePrompts :
          EncodesPost(generate_image(p, n), n)
    /\ \A k \in 1..Len(all_posts) :
          /\ EncodesPost(all_posts[k].image_path, k)
          /\ all_posts[k].image_path # ImageErrorUrl
          /\ \A p \in ImagePrompts : generate_image(p, k) = all_posts[k].image_path

C7_Witness ==
    /\ Len(all_posts) = 2
    /\ all_posts[1].idea # all_posts[2].idea
    /\ pc = "caption"

----------------------------------------------------------------------------
(* C8 *)

LoopEvent(p, ids) ==
    LET k == ((p - 1) \div 4) + 1
        r == (p - 1) % 4
    IN  CASE r = 0 -> Ev("generate_caption", k, ids[k])
          [] r = 1 -> Ev("generate_image", k, <<>>)
          [] r = 2 -> Ev("append", k, <<>>)
          [] r = 3 -> Ev("sleep", k, <<"1">>)

\* the log of a run that renders the ideas ids
ExpectedEvents(ids) ==
    <<Ev("load_strategy", 0, <<>>), Ev("generate_post_ideas", 0, <<>>)>>
        \o [p \in 1..(4 * Len(ids)) |-> LoopEvent(p, ids)]
        \o <<Ev("generate_dashboard", 0, <<>>)>>

\* C8: a run that reaches the render step has done exactly: load, one ideas
\* call, then per idea in order caption call, image call, append, delay, then
\* one render; at every moment of the loop the log is the beginning of that.
C8_EventsInOrder ==
    /\ pc \in {"written", "aborted_render"} => events = ExpectedEvents(ideas)
    /\ pc = "render" =>
          events = SubSeq(ExpectedEvents(ideas), 1, 4 * Len(ideas) + 2)
    /\ (IdeasReturned /\ ideas # <<>>) => IsPrefix(events, ExpectedEvents(ideas))
    /\ pc = "caption" => Len(events) = 2 + 4 * (i - 1)

C8_Witness ==
    /\ pc = "written"
    /\ Len(ideas) = 2
    /\ replies[1].ok
    /\ ~replies[2].ok

----------------------------------------------------------------------------
(* C9 *)

\* C9: every step leaves the appended Posts as they are and adds at most one
\* at the end, only in the append step; the strategy never changes once
\* loaded, nor the ideas once generated.
C9_PostsOnlyGrowAtTheEnd ==
    [][ /\ IsPrefix(all_posts, all_posts')
        /\ Len(all_posts') <= Len(all_posts) + 1
        /\ Len(all_posts') = Len(all_posts) + 1 => pc = "append"
        /\ pc # "load" => strategy' = strategy
        /\ pc \notin {"load", "ideas"} => ideas' = ideas ]_vars

C9_Witness ==
    /\ pc = "sleep"
    /\ Len(all_posts) = 2
    /\ all_posts[1].caption # all_posts[2].caption

----------------------------------------------------------------------------
(* C10 *)

\* C10: unless a service call hangs, a run ends in one of the terminal
\* states, having gone through the loop once per idea; a run whose service
\* call hangs stays there, never renders and never writes a report.
C10_RunEndsUnlessACallHangs ==
    /\ <>(pc \in TerminalStates \/ pc = "hung")
    /\ [](pc \in {"written", "aborted_render"} =>
              /\ i = Len(ideas) + 1
              /\ Len(replies) = Len(ideas))
    /\ [](pc = "hung" =>
              /\ report = <<>>
              /\ ~Logged({"generate_dashboard"}))
    /\ [][ /\ i' >= i
           /\ pc = "hung" => pc' = "hung" ]_vars

C10_Witness ==
    /\ pc = "hung"
    /\ Len(all_posts) = 1
    /\ report = <<>>

====
